---- MODULE Spec2Model ----
(***************************************************************************)
(* The easybit.io client: one Client (base URL + API key) and one async    *)
(* function per remote endpoint.  A call builds one HTTP request, sends    *)
(* it, and maps the response (HTTP status + JSON body) to Ok or to one of   *)
(* the three kinds of Error.  Two environments are modelled: an arbitrary   *)
(* peer (any status with any body) and the remote service as the           *)
(* specification describes it.                                             *)
(***************************************************************************)
EXTENDS Integers, Sequences, FiniteSets, TLC

\* ------------------------------------------------------------------ bounds
\* Fees offered to set_fee and held by the service: 0..MaxFee units of 0.0001.
MaxFee == 2
\* Amounts offered to get_exchange_rate and create_order: 1..MaxAmount.
MaxAmount == 1
\* Longest `data` list a response carries.
MaxList == 2
\* Most optional arguments that are Some in one all_orders / create_order call.
MaxPresent == 1

\* --------------------------------------------------------- program constants
\* StatusCode::OK
StatusOK == 200
\* errorCode of the synthetic "Currency not found" error
NotFoundCode == 404
\* The documented range of the extra fee, 0 - 0.1, in units of 0.0001.
FeeRangeMax == 1000

\* ------------------------------------------------------------------ values
\* Option<T>: None is the empty sequence, Some(x) the one-element sequence.
None == <<>>
Some(x) == <<x>>
IsSome(o) == o # None
OptOf(S) == {None} \cup {Some(s) : s \in S}

\* serde_json::Value, as far as the program distinguishes values: a number,
\* a string or null.
Num(n) == [t |-> "num", s |-> "", n |-> n]
Str(x) == [t |-> "str", s |-> x, n |-> 0]
Null == [t |-> "null", s |-> "", n |-> 0]

\* Option<String> / Option<f64> inside json!({...}): None serializes to null.
OptStrJson(o) == IF IsSome(o) THEN Str(o[1]) ELSE Null
OptNumJson(o) == IF IsSome(o) THEN Num(o[1]) ELSE Null

\* f64::to_string of a whole number n (amounts are whole in the model).
F64ToString(n) == ToString(n)

\* The keys of a query string / JSON body given as a sequence of <<key, value>>.
KeysOf(pairs) == {pairs[i][1] : i \in DOMAIN pairs}
HasKey(pairs, k) == k \in KeysOf(pairs)
ValueOf(pairs, k) == pairs[CHOOSE i \in DOMAIN pairs : pairs[i][1] = k][2]

RECURSIVE QueryOfOptions(_)
\* reqwest's .query(&[(key, Option<String>)]): serde_urlencoded writes the pair
\* of a Some value and writes nothing for None.
QueryOfOptions(pairs) ==
    IF pairs = <<>> THEN <<>>
    ELSE (IF IsSome(Head(pairs)[2])
            THEN << <<Head(pairs)[1], Head(pairs)[2][1]>> >>
            ELSE <<>>)
         \o QueryOfOptions(Tail(pairs))

\* Sequences over S of length at most n.
SeqsUpTo(S, n) == UNION {[1..k -> S] : k \in 0..n}

\* ------------------------------------------------------------------ inputs
Urls == {"https://api.easybit.com", "https://sandbox.easybit.com"}
ValidKey == "valid_key"
Keys == {ValidKey, "invalid_api_key"}
\* Currency codes a caller may ask for; the service knows KnownCodes.
KnownCodes == {"BTC", "ETH"}
Codes == KnownCodes \cup {"XXX"}
OptStrings == {"", "X"}
OptString == OptOf(OptStrings)
OrderIds == {"o1", "o2"}
Amounts == 1..MaxAmount
FeeInputs == (0..MaxFee) \cup {FeeRangeMax + 1}
FeeOverrides == OptOf({0, 1})
Statuses == {StatusOK, 404}

\* The tasks that may have a call in flight at the same time on one client.
Tasks == {"a", "b"}

\* ------------------------------------------------------------------- state
VARIABLES
    url,        \* Client.url
    api_key,    \* Client.api_key
    pc,         \* where the caller's one call stands: "idle", "sent", "done"
    call,       \* the operation called and its arguments
    req,        \* the HTTP request the call sent (None: no request)
    resp,       \* the response the call received (None: not yet)
    result,     \* what the call returned (None: not yet)
    extraFee,   \* the remote service's extra fee for the account of ValidKey
    lastSetFee, \* the fee of the latest set_fee call, if it returned Ok
    given,      \* the arguments Client::new was called with
    dropped,    \* the Client has been dropped
    copies,     \* the credentials cloned out of the Client into plain Strings
    requests,   \* the number of HTTP requests the call has sent
    lastOrder,  \* the id of the order that the call just before this one created
    tasks,      \* the calls in flight at once on the one client, by task
    taskFee     \* by task: the fee of its latest set_fee, if that returned Ok,
                \* and whether no other task's set_fee has reached the service since

vars ==
    <<url, api_key, pc, call, req, resp, result, extraFee, lastSetFee,
      given, dropped, copies, requests, lastOrder, tasks, taskFee>>

\* Client::get_api_key, Client::get_url
get_api_key == api_key
get_url == url

\* ---------------------------------------------------------------- requests
\* A GET that leaves the API-KEY header empty.
Get_without_key(path, query) ==
    [method |-> "GET", url |-> get_url \o path, api_key |-> "",
     query |-> query, body |-> <<>>]

\* reqwest::Client::new().get(format!("{}{}", client.get_url(), path))
\*     .header("API-KEY", client.get_api_key())
Get(path, query) ==
    [method |-> "GET", url |-> get_url \o path, api_key |-> get_api_key,
     query |-> query, body |-> <<>>]

\* reqwest::Client::new().post(...).header("API-KEY", ...).json(&body)
Post(path, body) ==
    [method |-> "POST", url |-> get_url \o path, api_key |-> get_api_key,
     query |-> <<>>, body |-> body]

get_account_request == Get("/account", <<>>)

\* Mutant of set_fee_request: the fee under the key "fee".
set_fee_request_wrong_key(fee) == Post("/setExtraFee", << <<"fee", Num(fee)>> >>)

\* .json(&serde_json::json!({"extraFee": fee})): the fee goes out as a number.
set_fee_request(fee) == Post("/setExtraFee", << <<"extraFee", Num(fee)>> >>)

get_currency_list_request == Get("/currencyList", <<>>)

\* Mutant of get_single_currency_request: the currency filter is left out.
get_single_currency_request_unfiltered(currency) == Get("/currencyList", <<>>)

\* format!("/currencyList?currency={}", currency): the code is spliced into the
\* URL text, which for a code free of reserved characters is the one query
\* pair currency=<code>.
get_single_currency_request(currency) ==
    Get("/currencyList", << <<"currency", currency>> >>)

get_pair_list_request == Get("/pairList", <<>>)

\* Option::unwrap_or_default: the string of Some, "" for None.
UnwrapOrDefault(o) == IF IsSome(o) THEN o[1] ELSE ""
\* Option<f64>::unwrap_or_default: the number of Some, 0.0 for None.
UnwrapOrDefaultF64(o) == IF IsSome(o) THEN o[1] ELSE 0

get_pair_info_request(send, receive, sendNetwork, receiveNetwork, amountType) ==
    Get("/pairInfo",
        << <<"send", send>>,
           <<"receive", receive>>,
           <<"sendNetwork", UnwrapOrDefault(sendNetwork)>>,
           <<"receiveNetwork", UnwrapOrDefault(receiveNetwork)>>,
           <<"amountType", UnwrapOrDefault(amountType)>> >>)

get_exchange_rate_request(send, receive, amount, send_network, receive_network, amount_type, extra_fee_override) ==
    Get("/rate",
        << <<"send", send>>,
           <<"receive", receive>>,
           <<"amount", F64ToString(amount)>>,
           <<"sendNetwork", UnwrapOrDefault(send_network)>>,
           <<"receiveNetwork", UnwrapOrDefault(receive_network)>>,
           <<"amountType", UnwrapOrDefault(amount_type)>>,
           <<"extraFeeOverride",
             F64ToString(UnwrapOrDefaultF64(extra_fee_override))>> >>)

\* query_tuple_array: currency and address, then network and tag if Some.
validate_address_request(currency, address, network, tag) ==
    Get("/validateAddress",
        << <<"currency", currency>>, <<"address", address>> >>
        \o (IF IsSome(network) THEN << <<"network", network[1]>> >> ELSE <<>>)
        \o (IF IsSome(tag) THEN << <<"tag", tag[1]>> >> ELSE <<>>))

\* serde_json::json!({...}) of create_order: every key is written; amount is
\* the f64 itself, and an Option that is None is written as null.
create_order_request(transaction, user, network) ==
    Post("/order",
        << <<"send", Str(transaction.send)>>,
           <<"receive", Str(transaction.receive)>>,
           <<"amount", Num(transaction.amount)>>,
           <<"receiveAddress", Str(transaction.receive_address)>>,
           <<"payload", OptStrJson(user.payload)>>,
           <<"userDeviceId", OptStrJson(user.user_device_id)>>,
           <<"userId", OptStrJson(user.user_id)>>,
           <<"sendNetwork", OptStrJson(network.send_network)>>,
           <<"receiveNetwork", OptStrJson(network.receive_network)>>,
           <<"receiveTag", OptStrJson(network.receive_tag)>>,
           <<"extraFeeOverride", OptNumJson(transaction.extra_fee_override)>>,
           <<"vpm", OptStrJson(transaction.vpm)>>,
           <<"refundAddress", OptStrJson(transaction.refund_address)>>,
           <<"refundTag", OptStrJson(transaction.refund_tag)>> >>)

\* The id under another key.
order_status_request_by_order_id(id) == Get("/orderStatus", << <<"orderId", id>> >>)

order_status_request(id) == Get("/orderStatus", << <<"id", id>> >>)

all_orders_request(id, limit, date_from, date_to, sort_direction, status) ==
    Get("/orders",
        QueryOfOptions(<< <<"id", id>>,
                          <<"limit", limit>>,
                          <<"dateFrom", date_from>>,
                          <<"dateTo", date_to>>,
                          <<"sortDirection", sort_direction>>,
                          <<"status", status>> >>))

\* DocumentType and Side, their Display implementations, and what
\* #[derive(Serialize)] writes for them: the name of the variant.
DocumentTypes ==
    {"DocumentType::Passport", "DocumentType::IdCard",
     "DocumentType::DriverLicense", "DocumentType::ResidencePermit"}
Sides == {"Side::Front", "Side::Back", "Side::Single"}
DocumentTypeDisplay(d) ==
    CASE d = "DocumentType::Passport" -> "PASSPORT"
      [] d = "DocumentType::IdCard" -> "ID_CARD"
      [] d = "DocumentType::DriverLicense" -> "DRIVERS"
      [] d = "DocumentType::ResidencePermit" -> "RESIDENCE_PERMIT"
SideDisplay(d) ==
    CASE d = "Side::Front" -> "FRONT_SIDE"
      [] d = "Side::Back" -> "BACK_SIDE"
      [] d = "Side::Single" -> "SINGLE_PAGE"
DocumentTypeSerialize(d) ==
    CASE d = "DocumentType::Passport" -> "Passport"
      [] d = "DocumentType::IdCard" -> "IdCard"
      [] d = "DocumentType::DriverLicense" -> "DriverLicense"
      [] d = "DocumentType::ResidencePermit" -> "ResidencePermit"
SideSerialize(d) ==
    CASE d = "Side::Front" -> "Front"
      [] d = "Side::Back" -> "Back"
      [] d = "Side::Single" -> "Single"

\* Document as #[derive(Serialize)] writes it (uri and selfie left out).
DocumentJson(document) ==
    [documentType |-> IF IsSome(document.documentType)
                        THEN Str(DocumentTypeSerialize(document.documentType[1]))
                        ELSE Null,
     side |-> IF IsSome(document.side)
                THEN Str(SideSerialize(document.side[1]))
                ELSE Null]
\* ValidationData as a JSON object with its documents (country left out).
ObjectJson(validationData) ==
    [t |-> "object", s |-> "", n |-> 0,
     documents |-> [i \in DOMAIN validationData.documents |->
                      DocumentJson(validationData.documents[i])]]
OptObjectJson(o) == IF IsSome(o) THEN ObjectJson(o[1]) ELSE Null

\* kyc::update::update_kyc: .post(url + "/updateOrder").json(&proof); Proof
\* serializes its three fields, a None as null.
update_kyc_request(proof) ==
    Post("/updateOrder",
         << <<"id", Str(proof.id)>>,
            <<"userId", OptStrJson(proof.userId)>>,
            <<"validationData", OptObjectJson(proof.validationData)>> >>)

\* The refund sent with GET.
refund_request_by_get(order_id, refund_address, refund_tag) ==
    Get("/refundOrder", << <<"id", order_id>>, <<"refundAddress", refund_address>> >>)

\* kyc::refund::refund: .post(url + "/refundOrder").json(&json!({...}))
refund_request(order_id, refund_address, refund_tag) ==
    Post("/refundOrder",
         << <<"id", Str(order_id)>>,
            <<"refundAddress", Str(refund_address)>>,
            <<"refundTag", OptStrJson(refund_tag)>> >>)

\* --------------------------------------------------------------- responses
\* The value under `data`, by the type it deserializes to.  WrongData stands
\* for every value that fits no endpoint type (null, a number, ...).
WrongData == [shape |-> "Null"]
\* The service's text for a fee of n units of 0.0001 ("0", "0.0001", ...,
\* "0.002", ..., "0.1001"): up to four decimals, trailing zeros dropped.
FeeToString(n) ==
    LET whole == n \div 10000
        frac == n % 10000
        d1 == frac \div 1000
        d2 == (frac \div 100) % 10
        d3 == (frac \div 10) % 10
        d4 == frac % 10
    IN  ToString(whole) \o
        (IF frac = 0 THEN ""
         ELSE "." \o ToString(d1) \o
              (IF frac % 1000 = 0 THEN ""
               ELSE ToString(d2) \o
                    (IF frac % 100 = 0 THEN ""
                     ELSE ToString(d3) \o
                          (IF d4 = 0 THEN "" ELSE ToString(d4)))))

AccountData(fee) == [shape |-> "Account", extraFee |-> FeeToString(fee)]
CurrencyRecord(c) == [currency |-> c]
CurrencyListData(list) == [shape |-> "CurrencyList", list |-> list]
PairListData(list) == [shape |-> "PairList", list |-> list]
PairData == [shape |-> "Pair"]
ExchangeRateData == [shape |-> "ExchangeRate"]
OrderData(id) == [shape |-> "Order", id |-> id]
StatusData(id, status, validationStatus) ==
    [shape |-> "Status", id |-> id, status |-> status,
     validationStatus |-> validationStatus]
SummaryListData(list) == [shape |-> "SummaryList", list |-> list]
\* Ok(()) of the operations that return no value.
Unit == [shape |-> "Unit"]

\* A response body: not JSON at all, a JSON object with or without `data`,
\* `errorMessage`, `errorCode`, or a JSON array of two elements (held in the
\* errorMessage and errorCode fields).
NotJson == [kind |-> "notjson", data |-> None, errorMessage |-> None, errorCode |-> None]
Object(data, errorMessage, errorCode) ==
    [kind |-> "object", data |-> data, errorMessage |-> errorMessage,
     errorCode |-> errorCode]
Array2(first, second) ==
    [kind |-> "array", data |-> None, errorMessage |-> Some(first),
     errorCode |-> Some(second)]
SuccessEnvelope(data) == Object(Some(data), None, None)
FailureEnvelope(message, code) == Object(None, Some(Str(message)), Some(Num(code)))

\* A response: the transport failed (send() returned Err), or a status and a body.
TransportFailed == [transport |-> "failed", status |-> 0, body |-> NotJson]
Response(status, body) == [transport |-> "ok", status |-> status, body |-> body]

\* ----------------------------------------------------------------- results
\* Result<T, Error>, and the panic of todo!().
OkResult(value) == [kind |-> "Ok", value |-> value, errorMessage |-> "", errorCode |-> 0]
NetworkError == [kind |-> "NetworkError", value |-> Unit, errorMessage |-> "", errorCode |-> 0]
DeserializeError == [kind |-> "DeserializeError", value |-> Unit, errorMessage |-> "", errorCode |-> 0]
ApiError(error) ==
    [kind |-> "ApiError", value |-> Unit, errorMessage |-> error.errorMessage,
     errorCode |-> error.errorCode]
Panic == [kind |-> "Panic", value |-> Unit, errorMessage |-> "", errorCode |-> 0]

\* struct EasyBit { errorMessage: String, errorCode: i32 }
EasyBit(errorMessage, errorCode) ==
    [errorMessage |-> errorMessage, errorCode |-> errorCode]

\* ------------------------------------------------------------ deserializing
\* response.json::<Value>() succeeds on every JSON text.
IsJson(body) == body.kind # "notjson"

\* json.get("data"): Some for an object that has the key (whatever its value),
\* None for an object without it and for every value that is no object.
GetData(body) == IF body.kind = "object" THEN body.data ELSE None

\* serde_json::from_value::<T>(data): succeeds when data has T's shape.
FromValueOk(shape, data) == data.shape = shape

\* Deserializing EasyBit (serde's derive): from an object that has a string
\* errorMessage and a number errorCode (other keys are ignored), or from an
\* array whose two elements are a string and a number.
IsEasyBit(body) ==
    /\ body.kind \in {"object", "array"}
    /\ IsSome(body.errorMessage) /\ body.errorMessage[1].t = "str"
    /\ IsSome(body.errorCode) /\ body.errorCode[1].t = "num"
ToEasyBit(body) == EasyBit(body.errorMessage[1].s, body.errorCode[1].n)

\* let json: Value = response.json().await?;   (reqwest::Error -> NetworkError)
\* match json.get("data") {
\*     Some(data) => Ok(serde_json::from_value(data.clone())?),
\*     None => Err(Error::ApiError(serde_json::from_value(json)?)) }
EnvelopeResult(shape, body) ==
    IF ~IsJson(body) THEN NetworkError
    ELSE IF IsSome(GetData(body))
      THEN IF FromValueOk(shape, GetData(body)[1])
             THEN OkResult(GetData(body)[1])
             ELSE DeserializeError
      ELSE IF IsEasyBit(body) THEN ApiError(ToEasyBit(body))
           ELSE DeserializeError

\* _ => { let error: EasyBit = response.json().await?; Err(Error::ApiError(error)) }
\* response.json fails with a reqwest::Error, which `?` turns into NetworkError.
ErrorBodyResult(body) ==
    IF IsJson(body) /\ IsEasyBit(body) THEN ApiError(ToEasyBit(body))
    ELSE NetworkError

\* _ => { let json: Value = response.json().await?;
\*        let error: EasyBit = serde_json::from_value(json)?;
\*        Err(Error::ApiError(error)) }
ErrorValueResult(body) ==
    IF ~IsJson(body) THEN NetworkError
    ELSE IF IsEasyBit(body) THEN ApiError(ToEasyBit(body))
    ELSE DeserializeError

\* ---------------------------------------------------- response handling
\* .send().await? : a transport failure ends the call with NetworkError.
\* A failed send reported as a body that could not be decoded.
AfterSend_decoding(r, onResponse) ==
    IF r.transport = "failed" THEN DeserializeError ELSE onResponse

AfterSend(r, onResponse) ==
    IF r.transport = "failed" THEN NetworkError ELSE onResponse

\* match response.status() { StatusCode::OK => <envelope>, _ => <EasyBit body> }
StatusChecked(shape, r) ==
    IF r.status = StatusOK THEN EnvelopeResult(shape, r.body)
    ELSE ErrorBodyResult(r.body)

\* match response.status() { StatusCode::OK => Ok(()), _ => <EasyBit body> }
StatusOnly(r) ==
    IF r.status = StatusOK THEN OkResult(Unit) ELSE ErrorBodyResult(r.body)

\* An account whose fee is always read as 0.
get_account_response_without_fee(r) ==
    AfterSend(r, IF StatusChecked("Account", r).kind = "Ok"
                   THEN OkResult(AccountData(0))
                   ELSE StatusChecked("Account", r))

get_account_response(r) == AfterSend(r, StatusChecked("Account", r))

set_fee_response(r) == AfterSend(r, StatusOnly(r))

get_currency_list_response(r) == AfterSend(r, EnvelopeResult("CurrencyList", r.body))

\* The synthetic error of an empty `data` list.
CurrencyNotFound == EasyBit("Currency not found", NotFoundCode)

\* Mutant of get_single_currency_response: no is_empty check, so currency[0]
\* panics on an empty list.
get_single_currency_response_unchecked(r) ==
    LET listed == StatusChecked("CurrencyList", r)
    IN  AfterSend(r,
          IF r.status = StatusOK /\ listed.kind = "Ok"
            THEN IF listed.value.list = <<>>
                   THEN Panic
                   ELSE OkResult(listed.value.list[1])
            ELSE listed)

\* As get_account, but `data` is a list: empty gives the synthetic ApiError,
\* otherwise the first element is returned (currency[0].clone()).
get_single_currency_response(r) ==
    LET listed == StatusChecked("CurrencyList", r)
    IN  AfterSend(r,
          IF r.status = StatusOK /\ listed.kind = "Ok"
            THEN IF listed.value.list = <<>>
                   THEN ApiError(CurrencyNotFound)
                   ELSE OkResult(listed.value.list[1])
            ELSE listed)

get_pair_list_response(r) == AfterSend(r, StatusChecked("PairList", r))

get_pair_info_response(r) == AfterSend(r, StatusChecked("Pair", r))

get_exchange_rate_response(r) == AfterSend(r, StatusChecked("ExchangeRate", r))

validate_address_response(r) == AfterSend(r, StatusOnly(r))

create_order_response(r) == AfterSend(r, EnvelopeResult("Order", r.body))

order_status_response(r) == AfterSend(r, EnvelopeResult("Status", r.body))

all_orders_response(r) == AfterSend(r, EnvelopeResult("SummaryList", r.body))

\* match status { StatusCode::OK => Ok(()), _ => ... }  (update_kyc and refund)
StatusOnlyValue(r) ==
    IF r.status = StatusOK THEN OkResult(Unit) ELSE ErrorValueResult(r.body)

update_kyc_response(r) == AfterSend(r, StatusOnlyValue(r))

refund_response(r) == AfterSend(r, StatusOnlyValue(r))

\* What the call of operation op returns on response r.
Returned(op, r) ==
    CASE op = "get_account" -> get_account_response(r)
      [] op = "set_fee" -> set_fee_response(r)
      [] op = "get_currency_list" -> get_currency_list_response(r)
      [] op = "get_single_currency" -> get_single_currency_response(r)
      [] op = "get_pair_list" -> get_pair_list_response(r)
      [] op = "get_pair_info" -> get_pair_info_response(r)
      [] op = "get_exchange_rate" -> get_exchange_rate_response(r)
      [] op = "validate_address" -> validate_address_response(r)
      [] op = "create_order" -> create_order_response(r)
      [] op = "order_status" -> order_status_response(r)
      [] op = "all_orders" -> all_orders_response(r)
      [] op = "update_kyc" -> update_kyc_response(r)
      [] op = "refund" -> refund_response(r)

\* The operations that send a request, and the two that are todo!().
Endpoints ==
    {"get_account", "set_fee", "get_currency_list", "get_single_currency",
     "get_pair_list", "get_pair_info", "get_exchange_rate", "validate_address",
     "create_order", "order_status", "all_orders"}
Stubs == {"update_order_kyc", "refund_order"}
\* The two functions of the private module kyc, which no method of Client calls.
Unused == {"update_kyc", "refund"}
\* The type `data` must have for each operation that deserializes it.
ShapeOf(op) ==
    CASE op = "get_account" -> "Account"
      [] op \in {"get_currency_list", "get_single_currency"} -> "CurrencyList"
      [] op = "get_pair_list" -> "PairList"
      [] op = "get_pair_info" -> "Pair"
      [] op = "get_exchange_rate" -> "ExchangeRate"
      [] op = "create_order" -> "Order"
      [] op = "order_status" -> "Status"
      [] op = "all_orders" -> "SummaryList"
      [] OTHER -> "Unit"

\* ------------------------------------------------- what a peer may answer
StatusSamples ==
    {<<"Action Request", Some("awaiting")>>, <<"Complete", None>>}
\* Status.status is a String and Status.validationStatus an Option<String>: a
\* peer may also send strings that the documentation does not list.
PeerStatusSamples == StatusSamples \cup {<<"Shipped", Some("unknown")>>}
SummaryRecord(id, status, validationStatus) ==
    [id |-> id, status |-> status, validationStatus |-> validationStatus]
SummarySamples ==
    {SummaryRecord("o1", "Complete", None),
     SummaryRecord("o2", "Action Request", Some("awaiting"))}

\* Well-shaped `data` values for each operation.
GoodData(op) ==
    CASE op = "get_account" -> {AccountData(f) : f \in 0..MaxFee}
      [] op \in {"get_currency_list", "get_single_currency"} ->
           {CurrencyListData(l) :
              l \in SeqsUpTo({CurrencyRecord(c) : c \in KnownCodes}, MaxList)}
      [] op = "get_pair_list" ->
           {PairListData(l) : l \in SeqsUpTo({"BTC_BTC_ETH_ETH"}, MaxList)}
      [] op = "get_pair_info" -> {PairData}
      [] op = "get_exchange_rate" -> {ExchangeRateData}
      [] op = "create_order" -> {OrderData(i) : i \in OrderIds}
      [] op = "order_status" ->
           {StatusData(i, s[1], s[2]) : i \in OrderIds, s \in PeerStatusSamples}
      [] op = "all_orders" ->
           {SummaryListData(l) : l \in SeqsUpTo(SummarySamples, MaxList)}
      [] OTHER -> {}

ErrorSamples == {EasyBit("Currency not found", 404), EasyBit("Invalid API key", 401)}
\* errorMessage / errorCode of a body: both absent, a well-formed pair, the
\* code missing, the code a string instead of a number.
ErrorFields ==
    {<<None, None>>}
    \cup {<<Some(Str(e.errorMessage)), Some(Num(e.errorCode))>> : e \in ErrorSamples}
    \cup {<<Some(Str("Invalid API key")), None>>,
          <<Some(Str("Invalid API key")), Some(Str("401"))>>}

Bodies(op) ==
    {NotJson, Array2(Str("Invalid API key"), Num(401))}
    \cup {Object(d, e[1], e[2]) :
            d \in OptOf(GoodData(op) \cup {WrongData}), e \in ErrorFields}

\* Every response an arbitrary peer can give to a call of op.
Responses(op) ==
    {TransportFailed} \cup {Response(s, b) : s \in Statuses, b \in Bodies(op)}

\* ------------------------------------------------------ the remote service
\* The service as the specification describes it: it answers in one of the
\* two envelopes, keeps the account's extra fee, knows KnownCodes, and rejects
\* every key but ValidKey.
ServiceBase == "https://api.easybit.com"
At(r, method, path) == r.method = method /\ r.url = ServiceBase \o path
Rejection(message, code) ==
    {Response(s, FailureEnvelope(message, code)) : s \in Statuses}

\* Whether a /setExtraFee request carries a fee the service accepts.
AcceptsFee(r) ==
    /\ HasKey(r.body, "extraFee")
    /\ ValueOf(r.body, "extraFee").t = "num"
    /\ ValueOf(r.body, "extraFee").n \in 0..FeeRangeMax

\* The ways the service may report that it does not know a currency: an empty
\* list with status 200, or a failure envelope (with status 200 or not) whose
\* message and code are the service's own.
AbsentErrors == {EasyBit("Currency not found", 404), EasyBit("Invalid currency", 400)}
AbsentReplies ==
    {Response(StatusOK, SuccessEnvelope(CurrencyListData(<<>>)))}
    \cup UNION {Rejection(e.errorMessage, e.errorCode) : e \in AbsentErrors}

AllCurrencies == <<CurrencyRecord("BTC"), CurrencyRecord("ETH")>>

ServiceReplies(r, fee) ==
    IF r.api_key # ValidKey THEN Rejection("Invalid API key", 401)
    ELSE CASE At(r, "GET", "/account") ->
                {Response(StatusOK, SuccessEnvelope(AccountData(fee)))}
           [] At(r, "POST", "/setExtraFee") ->
                IF AcceptsFee(r) THEN {Response(StatusOK, Object(None, None, None))}
                ELSE Rejection("Invalid fee", 400)
           [] At(r, "GET", "/currencyList") ->
                IF ~HasKey(r.query, "currency")
                  THEN {Response(StatusOK, SuccessEnvelope(CurrencyListData(AllCurrencies)))}
                ELSE IF ValueOf(r.query, "currency") \in KnownCodes
                  THEN {Response(StatusOK, SuccessEnvelope(CurrencyListData(
                          <<CurrencyRecord(ValueOf(r.query, "currency"))>>)))}
                ELSE AbsentReplies
           [] At(r, "GET", "/pairList") ->
                {Response(StatusOK, SuccessEnvelope(PairListData(<<"BTC_BTC_ETH_ETH">>)))}
           [] At(r, "GET", "/pairInfo") -> {Response(StatusOK, SuccessEnvelope(PairData))}
           [] At(r, "GET", "/rate") -> {Response(StatusOK, SuccessEnvelope(ExchangeRateData))}
           [] At(r, "GET", "/validateAddress") ->
                {Response(StatusOK, Object(None, None, None))}
                \cup Rejection("Invalid address", 400)
           [] At(r, "POST", "/order") ->
                {Response(StatusOK, SuccessEnvelope(OrderData(i))) : i \in OrderIds}
           [] At(r, "GET", "/orderStatus") ->
                IF HasKey(r.query, "id") /\ ValueOf(r.query, "id") \in OrderIds
                  THEN {Response(StatusOK, SuccessEnvelope(
                          StatusData(ValueOf(r.query, "id"), s[1], s[2]))) :
                          s \in StatusSamples}
                ELSE Rejection("Order not found", 404)
           [] At(r, "GET", "/orders") ->
                {Response(StatusOK, SuccessEnvelope(SummaryListData(l))) :
                   l \in SeqsUpTo(SummarySamples, MaxList)}
           [] OTHER -> {Response(404, NotJson)}

\* The account's extra fee after the service has handled r.
ServiceFee(r, fee) ==
    IF r.api_key = ValidKey /\ At(r, "POST", "/setExtraFee") /\ AcceptsFee(r)
      THEN ValueOf(r.body, "extraFee").n
      ELSE fee

\* ------------------------------------------------------------------ actions
Idle == [op |-> "none"]

\* A task that has no call in flight.
IdleTask == [pc |-> "idle", call |-> Idle, req |-> None, resp |-> None, result |-> None]

\* Client::new(url, api_key)
Init ==
    /\ url \in Urls
    /\ api_key \in Keys
    /\ pc = "idle"
    /\ call = Idle
    /\ req = None
    /\ resp = None
    /\ result = None
    /\ extraFee = 0
    /\ lastSetFee = None
    /\ given = [url |-> url, api_key |-> api_key]
    /\ dropped = FALSE
    /\ copies = {}
    /\ requests = 0
    /\ lastOrder = None
    /\ tasks = [t \in Tasks |-> IdleTask]
    /\ taskFee = [t \in Tasks |-> [set |-> None, alone |-> TRUE]]

\* The call's request goes out; the call waits for the response.  The
\* request is built from client.get_url() and client.get_api_key(), which are
\* clones of the two fields.
Send(c, r) ==
    /\ pc = "idle" /\ ~dropped
    /\ pc' = "sent"
    /\ call' = c
    /\ req' = Some(r)
    /\ requests' = requests + 1
    /\ copies' = copies \cup {get_url, get_api_key}
    /\ lastOrder' = IF c.op = "order_status" THEN lastOrder ELSE None
    /\ UNCHANGED <<url, api_key, resp, result, extraFee, lastSetFee, given, taskFee, dropped,
                   tasks>>

get_account == Send([op |-> "get_account"], get_account_request)

set_fee ==
    \E fee \in FeeInputs :
        Send([op |-> "set_fee", fee |-> fee], set_fee_request(fee))

get_currency_list == Send([op |-> "get_currency_list"], get_currency_list_request)

get_single_currency ==
    \E currency \in Codes :
        Send([op |-> "get_single_currency", currency |-> currency],
             get_single_currency_request(currency))

get_pair_list == Send([op |-> "get_pair_list"], get_pair_list_request)

get_pair_info ==
    \E sendNetwork \in OptString, receiveNetwork \in OptString, amountType \in OptString :
        Send([op |-> "get_pair_info", send |-> "BTC", receive |-> "ETH",
              sendNetwork |-> sendNetwork, receiveNetwork |-> receiveNetwork,
              amountType |-> amountType],
             get_pair_info_request("BTC", "ETH", sendNetwork, receiveNetwork, amountType))

get_exchange_rate ==
    \E amount \in Amounts, send_network \in OptString, receive_network \in OptString,
       amount_type \in OptString, extra_fee_override \in FeeOverrides :
        Send([op |-> "get_exchange_rate", send |-> "BTC", receive |-> "ETH",
              amount |-> amount, send_network |-> send_network,
              receive_network |-> receive_network, amount_type |-> amount_type,
              extra_fee_override |-> extra_fee_override],
             get_exchange_rate_request("BTC", "ETH", amount, send_network,
                                       receive_network, amount_type,
                                       extra_fee_override))

validate_address ==
    \E network \in OptString, tag \in OptString :
        Send([op |-> "validate_address", currency |-> "BTC", address |-> "addr1",
              network |-> network, tag |-> tag],
             validate_address_request("BTC", "addr1", network, tag))

\* The optional fields of Transaction, User and Network.
OrderOptionalFields ==
    {"payload", "userDeviceId", "userId", "sendNetwork", "receiveNetwork",
     "receiveTag", "extraFeeOverride", "vpm", "refundAddress", "refundTag"}
\* The sets of optional fields a caller sets in one call.
PresentSets == {S \in SUBSET OrderOptionalFields : Cardinality(S) <= MaxPresent}
StrIf(present, field) == IF field \in present THEN Some("X") ELSE None
NumIf(present, field) == IF field \in present THEN Some(1) ELSE None
TransactionOf(amount, present) ==
    [send |-> "BTC", receive |-> "ETH", amount |-> amount, receive_address |-> "addr1",
     extra_fee_override |-> NumIf(present, "extraFeeOverride"),
     vpm |-> StrIf(present, "vpm"),
     refund_address |-> StrIf(present, "refundAddress"),
     refund_tag |-> StrIf(present, "refundTag")]
UserOf(present) ==
    [user_device_id |-> StrIf(present, "userDeviceId"),
     user_id |-> StrIf(present, "userId"),
     payload |-> StrIf(present, "payload")]
NetworkOf(present) ==
    [send_network |-> StrIf(present, "sendNetwork"),
     receive_network |-> StrIf(present, "receiveNetwork"),
     receive_tag |-> StrIf(present, "receiveTag")]

\* Client::place_order
create_order ==
    \E amount \in Amounts, present \in PresentSets :
        Send([op |-> "create_order", transaction |-> TransactionOf(amount, present),
              user |-> UserOf(present), network |-> NetworkOf(present)],
             create_order_request(TransactionOf(amount, present), UserOf(present),
                                  NetworkOf(present)))

\* Client::get_order_status
order_status ==
    \E id \in OrderIds \cup {"o9"} :
        Send([op |-> "order_status", id |-> id], order_status_request(id))

AllOrdersFilters == {"id", "limit", "dateFrom", "dateTo", "sortDirection", "status"}
FilterChoices ==
    {f \in [AllOrdersFilters -> OptString] :
        Cardinality({k \in AllOrdersFilters : IsSome(f[k])}) <= MaxPresent}

\* Client::get_all_orders
all_orders ==
    \E f \in FilterChoices :
        Send([op |-> "all_orders", filters |-> f],
             all_orders_request(f["id"], f["limit"], f["dateFrom"], f["dateTo"],
                                f["sortDirection"], f["status"]))

\* The stub's body as its commented-out line has it: the request goes out.
Todo_calling(c) == Send(c, Post("/updateOrder", <<>>))

\* todo!(): the call panics before anything is built or sent.
Todo(c) ==
    /\ pc = "idle" /\ ~dropped
    /\ pc' = "done"
    /\ call' = c
    /\ result' = Some(Panic)
    /\ lastOrder' = None
    /\ UNCHANGED <<url, api_key, req, resp, extraFee, lastSetFee, given, taskFee, dropped,
                   copies, requests, tasks>>

update_order_kyc ==
    \E id \in OrderIds : Todo([op |-> "update_order_kyc", id |-> id])

refund_order ==
    \E id \in OrderIds, refund_tag \in OptString :
        Todo([op |-> "refund_order", id |-> id, refund_address |-> "addr1",
              refund_tag |-> refund_tag])

\* The Proof values a caller passes.
Documents ==
    {[documentType |-> Some(d), side |-> Some(x)] : d \in DocumentTypes, x \in Sides}
    \cup {[documentType |-> None, side |-> None]}
ValidationDatas == {[documents |-> <<d>>] : d \in Documents}
Proofs ==
    {[id |-> i, userId |-> u, validationData |-> v] :
        i \in OrderIds, u \in OptOf({"X"}), v \in OptOf(ValidationDatas)}

\* kyc::update::update_kyc, called directly.
update_kyc ==
    \E proof \in Proofs :
        Send([op |-> "update_kyc", proof |-> proof], update_kyc_request(proof))

\* kyc::refund::refund, called directly.
refund ==
    \E order_id \in OrderIds, refund_tag \in OptString :
        Send([op |-> "refund", order_id |-> order_id, refund_address |-> "addr1",
              refund_tag |-> refund_tag],
             refund_request(order_id, "addr1", refund_tag))

\* A call that takes the response and waits for another one.
Complete_awaiting_another(r) ==
    /\ resp' = Some(r)
    /\ UNCHANGED <<url, api_key, pc, call, req, result, lastSetFee, lastOrder, given, taskFee,
                   dropped, copies, requests, tasks>>

\* A call that sends its request once more after a failure.
Complete_retrying(r) ==
    IF Returned(call.op, r).kind # "Ok" /\ requests < 2
      THEN /\ pc' = "sent"
           /\ requests' = requests + 1
           /\ UNCHANGED <<url, api_key, call, req, resp, result, lastSetFee, lastOrder,
                          given, taskFee, dropped, copies, tasks>>
      ELSE /\ resp' = Some(r)
           /\ result' = Some(Returned(call.op, r))
           /\ pc' = "done"
           /\ UNCHANGED <<url, api_key, call, req, lastSetFee, lastOrder, given, taskFee, dropped,
                          copies, requests, tasks>>

\* The rest of the call once response r is in: the value it returns.
Complete(r) ==
    /\ resp' = Some(r)
    /\ result' = Some(Returned(call.op, r))
    /\ pc' = "done"
    /\ lastSetFee' = IF call.op # "set_fee" THEN lastSetFee
                     ELSE IF Returned(call.op, r).kind = "Ok" THEN Some(call.fee)
                     ELSE None
    /\ lastOrder' = IF call.op # "create_order" THEN lastOrder
                    ELSE IF Returned(call.op, r).kind = "Ok"
                      THEN Some(Returned(call.op, r).value.id)
                    ELSE None
    /\ UNCHANGED <<url, api_key, call, req, given, taskFee, dropped, copies, requests, tasks>>

\* An arbitrary peer answers (or the transport fails).
Receive ==
    /\ pc = "sent"
    /\ \E r \in Responses(call.op) : Complete(r)
    /\ UNCHANGED extraFee

\* The remote service handles the request and answers.
ServiceReceive ==
    /\ pc = "sent"
    /\ \E r \in ServiceReplies(req[1], extraFee) : Complete(r)
    /\ extraFee' = ServiceFee(req[1], extraFee)

\* The transport fails on the way to the service or on the way back.
TransportFailure ==
    /\ pc = "sent"
    /\ Complete(TransportFailed)
    /\ extraFee' \in {extraFee, ServiceFee(req[1], extraFee)}

\* A return that wipes the key the client holds.
Return_clearing_key ==
    /\ pc = "done"
    /\ pc' = "idle"
    /\ call' = Idle
    /\ req' = None
    /\ resp' = None
    /\ result' = None
    /\ requests' = 0
    /\ api_key' = ""
    /\ UNCHANGED <<url, extraFee, lastSetFee, lastOrder, given, taskFee, dropped, copies, tasks>>

\* The caller takes the result; the client is ready for the next call.
Return ==
    /\ pc = "done"
    /\ pc' = "idle"
    /\ call' = Idle
    /\ req' = None
    /\ resp' = None
    /\ result' = None
    /\ requests' = 0
    /\ lastOrder' = IF call.op = "create_order" THEN lastOrder ELSE None
    /\ UNCHANGED <<url, api_key, extraFee, lastSetFee, given, taskFee, dropped, copies, tasks>>

\* The Client goes out of scope: ZeroizeOnDrop zeroes its two String fields.
\* The Strings that get_url() and get_api_key() cloned out of it are not the
\* Client's: they were freed as plain Strings, their bytes left as they were.
Drop ==
    /\ pc = "idle" /\ ~dropped
    /\ dropped' = TRUE
    /\ url' = ""
    /\ api_key' = ""
    /\ UNCHANGED <<pc, call, req, resp, result, extraFee, lastSetFee, given, taskFee, copies,
                   requests, lastOrder, tasks>>

Calls ==
    \/ get_account
    \/ set_fee
    \/ get_currency_list
    \/ get_single_currency
    \/ get_pair_list
    \/ get_pair_info
    \/ get_exchange_rate
    \/ validate_address
    \/ create_order
    \/ order_status
    \/ all_orders
    \/ update_order_kyc
    \/ refund_order

\* The client against an arbitrary peer.
Next == Calls \/ Receive \/ Return \/ Drop
Spec == Init /\ [][Next]_vars

\* The functions of the crate called from inside it: the public client's
\* methods, and the two functions of kyc that none of them calls.
NextCrate == Next \/ update_kyc \/ refund
SpecCrate == Init /\ [][NextCrate]_vars

\* The client against the remote service.
NextService == Calls \/ ServiceReceive \/ TransportFailure \/ Return \/ Drop
SpecService == Init /\ [][NextService]_vars

\* The transport eventually delivers the response to a request that is out,
\* or fails: .send().await and response.json().await complete.
Transport == ServiceReceive \/ TransportFailure
SpecLive == SpecService /\ WF_vars(Transport)

\* ------------------------------------------------- calls in flight at once
\* Every method of Client takes &self and returns a future; a caller may hold
\* several of them on one client and poll them in any order (join!, spawn).
\* Each future builds its own reqwest::Client, request and response.
ConcurrentCalls ==
    {[op |-> "get_account"]} \cup {[op |-> "set_fee", fee |-> f] : f \in 0..MaxFee}

\* The request a call builds.
RequestOf(c) ==
    CASE c.op = "get_account" -> get_account_request
      [] c.op = "set_fee" -> set_fee_request(c.fee)

\* Task t calls an operation: the request goes out.
Spawn(t) ==
    /\ ~dropped
    /\ tasks[t].pc = "idle"
    /\ \E c \in ConcurrentCalls :
          tasks' = [tasks EXCEPT ![t] =
                      [pc |-> "sent", call |-> c, req |-> Some(RequestOf(c)),
                       resp |-> None, result |-> None]]
    /\ copies' = copies \cup {get_url, get_api_key}
    /\ UNCHANGED <<url, api_key, pc, call, req, resp, result, extraFee, lastSetFee,
                   given, taskFee, dropped, requests, lastOrder>>

\* A lock around the exchange: a call would wait while another is in flight.
TaskReceive_one_at_a_time(t) ==
    /\ tasks[t].pc = "sent"
    /\ \A u \in Tasks \ {t} : tasks[u].pc # "sent"
    /\ \E r \in Responses(tasks[t].call.op) :
          tasks' = [tasks EXCEPT ![t].pc = "done", ![t].resp = Some(r),
                                 ![t].result = Some(Returned(tasks[t].call.op, r))]
    /\ UNCHANGED <<url, api_key, pc, call, req, resp, result, extraFee, lastSetFee,
                   given, taskFee, dropped, copies, requests, lastOrder>>

\* The response to task t's request arrives and its call returns.
TaskReceive(t) ==
    /\ tasks[t].pc = "sent"
    /\ \E r \in Responses(tasks[t].call.op) :
          tasks' = [tasks EXCEPT ![t].pc = "done", ![t].resp = Some(r),
                                 ![t].result = Some(Returned(tasks[t].call.op, r))]
    /\ UNCHANGED <<url, api_key, pc, call, req, resp, result, extraFee, lastSetFee,
                   given, taskFee, dropped, copies, requests, lastOrder>>

\* Task t takes its result and is ready for its next call.
TaskReturn(t) ==
    /\ tasks[t].pc = "done"
    /\ tasks' = [tasks EXCEPT ![t] = IdleTask]
    /\ UNCHANGED <<url, api_key, pc, call, req, resp, result, extraFee, lastSetFee,
                   given, taskFee, dropped, copies, requests, lastOrder>>

NextConcurrent == \E t \in Tasks : Spawn(t) \/ TaskReceive(t) \/ TaskReturn(t)
SpecConcurrent == Init /\ [][NextConcurrent]_vars

\* What task t's call has come to know of the fee it set, once the call has
\* ended with outcome: a set_fee that returned Ok has set its fee; any other
\* end of a set_fee leaves the task without a fee it knows to be set.
OwnFee(t, outcome) ==
    IF tasks[t].call.op # "set_fee" THEN taskFee[t]
    ELSE IF outcome.kind = "Ok" THEN [set |-> Some(tasks[t].call.fee), alone |-> TRUE]
    ELSE [set |-> None, alone |-> TRUE]

\* The request of task t reaches the service (fee: the service's fee after
\* it), and the call ends with response r.  A set_fee that reached the
\* service ends what the other tasks know about the fee they set.
TaskComplete(t, r, fee) ==
    /\ tasks' = [tasks EXCEPT ![t].pc = "done", ![t].resp = Some(r),
                              ![t].result = Some(Returned(tasks[t].call.op, r))]
    /\ extraFee' = fee
    /\ taskFee' = [u \in Tasks |->
                     IF u = t THEN OwnFee(t, Returned(tasks[t].call.op, r))
                     ELSE IF tasks[t].call.op = "set_fee"
                       THEN [taskFee[u] EXCEPT !.alone = FALSE]
                     ELSE taskFee[u]]
    /\ UNCHANGED <<url, api_key, pc, call, req, resp, result, lastSetFee, given,
                   dropped, copies, requests, lastOrder>>

\* The remote service handles task t's request and answers.
TaskServiceReceive(t) ==
    /\ tasks[t].pc = "sent"
    /\ \E r \in ServiceReplies(tasks[t].req[1], extraFee) :
          TaskComplete(t, r, ServiceFee(tasks[t].req[1], extraFee))

\* The transport fails for task t, before or after the service has handled
\* the request.
TaskTransportFailure(t) ==
    /\ tasks[t].pc = "sent"
    /\ \E fee \in {extraFee, ServiceFee(tasks[t].req[1], extraFee)} :
          TaskComplete(t, TransportFailed, fee)

\* Tasks with calls in flight at once, against the remote service.
NextConcurrentService ==
    \E t \in Tasks :
        Spawn(t) \/ TaskServiceReceive(t) \/ TaskTransportFailure(t) \/ TaskReturn(t)
SpecConcurrentService == Init /\ [][NextConcurrentService]_vars

\* ------------------------------------------------------------------ claims
\* The call has returned with a response in hand.
Answered == pc = "done" /\ resp # None /\ resp[1].transport = "ok"
TheBody == resp[1].body
TheResult == result[1]
TheRequest == req[1]

\* The two envelopes of the specification: {data} and {errorMessage, errorCode}.
IsSuccessEnvelope(b) ==
    b.kind = "object" /\ IsSome(b.data) /\ b.errorMessage = None /\ b.errorCode = None
IsFailureEnvelope(b) == b.kind = "object" /\ b.data = None /\ IsEasyBit(b)
\* `data` has the shape of the operation's result (one Currency at least, for
\* get_single_currency).
WellShaped(op, data) ==
    /\ data.shape = ShapeOf(op)
    /\ op = "get_single_currency" => data.list # <<>>
\* The value the operation returns for a well-shaped `data`.
Decoded(op, data) == IF op = "get_single_currency" THEN data.list[1] ELSE data

\* C1: for every endpoint operation and every response, whatever its HTTP
\* status: a body that is an envelope with `data` of the endpoint's shape gives
\* Ok with the value decoded from `data`, and a body that is an envelope with
\* errorMessage and errorCode gives ApiError with exactly that message and code.
C1_EnvelopeDecidesResult ==
    (Answered /\ call.op \in Endpoints) =>
        /\ (IsSuccessEnvelope(TheBody) /\ WellShaped(call.op, TheBody.data[1]))
             => TheResult = OkResult(Decoded(call.op, TheBody.data[1]))
        /\ IsFailureEnvelope(TheBody)
             => TheResult = ApiError(ToEasyBit(TheBody))

\* C2: `data` is the sole discriminator: a call returns Ok only if the envelope
\* it received had a `data` field, and ApiError only if it had none, the
\* ApiError then carrying the message and code of the response.
C2_DataIsTheDiscriminator ==
    (/\ Answered /\ call.op \in Endpoints
     /\ IsSuccessEnvelope(TheBody) \/ IsFailureEnvelope(TheBody)) =>
        /\ TheResult.kind = "Ok" => IsSuccessEnvelope(TheBody)
        /\ TheResult.kind = "ApiError"
             => (IsFailureEnvelope(TheBody) /\ TheResult = ApiError(ToEasyBit(TheBody)))

\* The body matches neither envelope: no JSON, JSON that is no object, an
\* object with neither `data` nor a well-formed errorMessage/errorCode pair,
\* or `data` of the wrong shape.
MatchesNeitherEnvelope(op, b) ==
    \/ b.kind \in {"notjson", "array"}
    \/ b.kind = "object" /\ b.data = None /\ ~IsEasyBit(b)
    \/ b.kind = "object" /\ IsSome(b.data) /\ b.data[1].shape # ShapeOf(op)

\* C3: when the exchange succeeds and the body matches neither envelope, the
\* call returns DeserializeError (never NetworkError, ApiError or Ok).
C3_MalformedBodyIsDeserializeError ==
    (Answered /\ call.op \in Endpoints /\ MatchesNeitherEnvelope(call.op, TheBody))
        => TheResult.kind = "DeserializeError"

\* C4: with an invalid API key every operation of the client, the two stubs
\* included, ends in ApiError once the service has rejected the key: never in
\* a panic, NetworkError or Ok.
C4_InvalidKeyIsApiError ==
    (/\ pc = "done" /\ api_key # ValidKey /\ url = ServiceBase
     /\ resp # None => resp[1].transport = "ok")
        => TheResult.kind = "ApiError"

\* The optional string arguments of a GET call, with their query keys.
OptionalStringArgs(c) ==
    CASE c.op = "get_pair_info" ->
           << <<"sendNetwork", c.sendNetwork>>,
              <<"receiveNetwork", c.receiveNetwork>>,
              <<"amountType", c.amountType>> >>
      [] c.op = "get_exchange_rate" ->
           << <<"sendNetwork", c.send_network>>,
              <<"receiveNetwork", c.receive_network>>,
              <<"amountType", c.amount_type>> >>
      [] c.op = "validate_address" ->
           << <<"network", c.network>>, <<"tag", c.tag>> >>
      [] c.op = "all_orders" ->
           << <<"id", c.filters["id"]>>,
              <<"limit", c.filters["limit"]>>,
              <<"dateFrom", c.filters["dateFrom"]>>,
              <<"dateTo", c.filters["dateTo"]>>,
              <<"sortDirection", c.filters["sortDirection"]>>,
              <<"status", c.filters["status"]>> >>
      [] OTHER -> <<>>
OptionalGets == {"get_pair_info", "get_exchange_rate", "validate_address", "all_orders"}
AllUnset(c) ==
    \A i \in DOMAIN OptionalStringArgs(c) : OptionalStringArgs(c)[i][2] = None

\* C5: in the GET operations with optional parameters, a parameter whose
\* argument is None is no key of the outgoing query string; all_orders with
\* every filter unset sends no query parameter and returns Ok when the answer
\* is a `data` list.
C5_UnsetParametersAreOmitted ==
    (pc \in {"sent", "done"} /\ call.op \in OptionalGets) =>
        /\ \A i \in DOMAIN OptionalStringArgs(call) :
              OptionalStringArgs(call)[i][2] = None
                => ~HasKey(TheRequest.query, OptionalStringArgs(call)[i][1])
        /\ (call.op = "get_exchange_rate" /\ call.extra_fee_override = None)
              => ~HasKey(TheRequest.query, "extraFeeOverride")
        /\ (call.op = "all_orders" /\ AllUnset(call)) =>
              /\ TheRequest.query = <<>>
              /\ (Answered /\ IsSuccessEnvelope(TheBody)
                    /\ TheBody.data[1].shape = "SummaryList")
                   => TheResult.kind = "Ok"

\* C6: no outgoing query string carries an optional parameter with an empty
\* value: the key of an optional argument that is Some("") or None is omitted.
C6_NoEmptyOptionalParameter ==
    (pc \in {"sent", "done"} /\ call.op \in OptionalGets) =>
        \A i \in DOMAIN OptionalStringArgs(call) :
            OptionalStringArgs(call)[i][2] \in {None, Some("")}
              => ~HasKey(TheRequest.query, OptionalStringArgs(call)[i][1])

\* C7: an amount goes out as its string representation, never as a number:
\* the `amount` query parameter of get_exchange_rate and the `amount` field of
\* create_order's body.
C7_AmountIsSentAsString ==
    /\ (pc \in {"sent", "done"} /\ call.op = "get_exchange_rate")
         => ValueOf(TheRequest.query, "amount") = F64ToString(call.amount)
    /\ (pc \in {"sent", "done"} /\ call.op = "create_order")
         => ValueOf(TheRequest.body, "amount")
              = Str(F64ToString(call.transaction.amount))

\* The fees the service documents: 0 - 0.1.
AllowedFees == 0..FeeRangeMax

\* C8: after a set_fee(f) that returned Ok, f allowed, with no set_fee since,
\* a get_account that returns Ok returns extraFee equal to the string of f:
\* the latest successful set_fee wins.
C8_FeeRoundTrip ==
    (/\ pc = "done" /\ call.op = "get_account" /\ TheResult.kind = "Ok"
     /\ lastSetFee # None /\ lastSetFee[1] \in AllowedFees)
        => TheResult.value.extraFee = FeeToString(lastSetFee[1])
\* A get_account that returns the non-zero fee a set_fee has set.
C8_Witness ==
    /\ pc = "done" /\ call.op = "get_account" /\ TheResult.kind = "Ok"
    /\ lastSetFee = Some(MaxFee)
    /\ TheResult.value.extraFee = FeeToString(MaxFee)

\* C9: whenever get_single_currency(c) returns Ok(record), record.currency = c.
C9_SingleCurrencyIsTheOneAsked ==
    (pc = "done" /\ call.op = "get_single_currency" /\ TheResult.kind = "Ok")
        => TheResult.value.currency = call.currency
\* get_single_currency("ETH") has returned the record of ETH.
C9_Witness ==
    /\ pc = "done" /\ call.op = "get_single_currency" /\ call.currency = "ETH"
    /\ TheResult = OkResult(CurrencyRecord("ETH"))

\* The service was asked, with a valid key, for a currency it does not know.
AskedForUnknown ==
    /\ Answered /\ call.op = "get_single_currency"
    /\ url = ServiceBase /\ api_key = ValidKey /\ call.currency \notin KnownCodes

\* C10 as stated: for a currency the service does not know, get_single_currency
\* returns ApiError 404 "Currency not found" whichever way the service reports
\* the absence.
C10_UnknownIsAlwaysNotFound ==
    AskedForUnknown => TheResult = ApiError(EasyBit("Currency not found", 404))

\* C10 as amended: the call returns ApiError; with errorCode 404 and
\* errorMessage "Currency not found" when the service answers status 200 with
\* an empty `data` list, and otherwise with exactly the message and code of
\* the service's failure envelope, whatever the status.
C10_UnknownIsApiError ==
    AskedForUnknown =>
        IF IsSuccessEnvelope(TheBody)
          THEN /\ resp[1].status = StatusOK
               /\ TheBody.data[1] = CurrencyListData(<<>>)
               /\ TheResult = ApiError(EasyBit("Currency not found", 404))
          ELSE /\ IsFailureEnvelope(TheBody)
               /\ TheResult = ApiError(ToEasyBit(TheBody))
\* The service answered 200 with an empty list and the call returned the
\* synthetic error.
C10_Witness ==
    /\ AskedForUnknown
    /\ resp[1].status = StatusOK /\ TheBody = SuccessEnvelope(CurrencyListData(<<>>))
    /\ TheResult = ApiError(EasyBit("Currency not found", 404))

\* The call went to the remote service and the service answered it.
AnsweredByService == Answered /\ given.url = ServiceBase

\* C11: validate_address returns Ok(()) exactly when the service reports the
\* address as valid, and otherwise ApiError with the service's message and
\* code: a failure envelope from the service never results in Ok(()).
C11_ValidateAddressFollowsService ==
    (AnsweredByService /\ call.op = "validate_address") =>
        IF IsFailureEnvelope(TheBody)
          THEN TheResult = ApiError(ToEasyBit(TheBody))
          ELSE TheResult = OkResult(Unit)

\* C12: an order_status(o.id) that immediately follows a successful
\* create_order returning o sends exactly o.id as its `id` query parameter
\* and, when it returns Ok, returns a Status whose id is o.id.
C12_StatusOfTheOrderJustCreated ==
    (/\ pc \in {"sent", "done"} /\ call.op = "order_status"
     /\ lastOrder # None /\ call.id = lastOrder[1]) =>
        /\ TheRequest.query = << <<"id", lastOrder[1]>> >>
        /\ (pc = "done" /\ TheResult.kind = "Ok")
             => TheResult.value.id = lastOrder[1]
\* create_order returned order o2, and the order_status(o2) right after it
\* returned the status of o2.
C12_Witness ==
    /\ pc = "done" /\ call.op = "order_status"
    /\ lastOrder = Some("o2") /\ call.id = "o2"
    /\ TheResult.kind = "Ok" /\ TheResult.value.id = "o2"

\* The call's send failed: no response was obtained.
SendFailed == pc = "done" /\ resp # None /\ resp[1].transport = "failed"

\* C13: when the send fails, the call returns NetworkError, without a value,
\* and has sent no request besides the one that failed.
C13_SendFailureIsNetworkError ==
    SendFailed => (TheResult = NetworkError /\ requests = 1)
\* set_fee's send failed and the call returned NetworkError.
C13_Witness ==
    /\ SendFailed /\ call.op = "set_fee"
    /\ TheResult = NetworkError /\ requests = 1

\* C14 as stated: every call of every operation, once it has returned, has
\* issued exactly one HTTP request.
C14_EveryCallSendsOneRequest ==
    pc = "done" => requests = 1

\* C14 as amended: a call of update_order_kyc or refund_order issues no
\* request; a call of any other operation issues exactly one, never a second
\* one whatever the outcome, has nothing of an earlier call while it waits, and
\* returns what the response to its own request gives.
C14_OneRequestPerEndpointCall ==
    /\ (pc # "idle" /\ call.op \in Stubs) => (requests = 0 /\ req = None)
    /\ (pc = "sent") => (requests = 1 /\ resp = None /\ result = None)
    /\ (pc = "done" /\ call.op \notin Stubs) =>
          /\ requests = 1
          /\ resp # None
          /\ result = Some(Returned(call.op, resp[1]))
\* A get_account that failed has returned after its one request.
C14_Witness ==
    /\ pc = "done" /\ call.op = "get_account"
    /\ TheResult.kind \in {"NetworkError", "ApiError", "DeserializeError"}
    /\ requests = 1

\* The catalogue of the specification: each operation's method and path.
Catalogue(op) ==
    CASE op = "get_account" -> [method |-> "GET", path |-> "/account"]
      [] op = "set_fee" -> [method |-> "POST", path |-> "/setExtraFee"]
      [] op = "get_currency_list" -> [method |-> "GET", path |-> "/currencyList"]
      [] op = "get_single_currency" -> [method |-> "GET", path |-> "/currencyList"]
      [] op = "get_pair_list" -> [method |-> "GET", path |-> "/pairList"]
      [] op = "get_pair_info" -> [method |-> "GET", path |-> "/pairInfo"]
      [] op = "get_exchange_rate" -> [method |-> "GET", path |-> "/rate"]
      [] op = "validate_address" -> [method |-> "GET", path |-> "/validateAddress"]
      [] op = "create_order" -> [method |-> "POST", path |-> "/order"]
      [] op = "order_status" -> [method |-> "GET", path |-> "/orderStatus"]
      [] op = "all_orders" -> [method |-> "GET", path |-> "/orders"]
      [] op = "update_kyc" -> [method |-> "POST", path |-> "/updateOrder"]
      [] op = "refund" -> [method |-> "POST", path |-> "/refundOrder"]

\* C15: every request carries the API key given to Client::new in its API-KEY
\* header and is addressed to the base URL given to Client::new followed by
\* the operation's path.
C15_RequestCarriesTheCredentials ==
    req # None =>
        /\ TheRequest.api_key = given.api_key
        /\ TheRequest.url = given.url \o Catalogue(call.op).path
\* all_orders has sent its request, with the client's key, to the second URL.
C15_Witness ==
    /\ req # None /\ call.op = "all_orders"
    /\ given = [url |-> "https://sandbox.easybit.com", api_key |-> "invalid_api_key"]
    /\ TheRequest.api_key = "invalid_api_key"
    /\ TheRequest.url = "https://sandbox.easybit.com/orders"

\* C16: as long as the client lives, after any sequence of calls, get_url()
\* and get_api_key() return the values that were passed to Client::new.
C16_CredentialsAreNeverMutated ==
    ~dropped => (get_url = given.url /\ get_api_key = given.api_key)
\* A call has failed after an earlier set_fee succeeded, and the accessors
\* still return what Client::new was given.
C16_Witness ==
    /\ pc = "done" /\ TheResult.kind = "ApiError" /\ lastSetFee # None
    /\ get_url = given.url /\ get_api_key = given.api_key

\* C17: once the Client is dropped, no readable copy of the credentials
\* remains: the two fields are zeroed, and so is every String that
\* get_api_key() and get_url() handed out.
C17_NoCopyOutlivesTheClient ==
    dropped =>
        /\ url = "" /\ api_key = ""
        /\ copies \cap {given.url, given.api_key} = {}

\* C18: calls in flight at once on one client are independent.  In every
\* interleaving: a call that has returned has the result that the response to
\* its own request gives; a call that waits for its response can take it,
\* whatever the others are doing; the client's fields are never written; and
\* the step of one call leaves every other call as it was.
C18_ConcurrentCallsAreIndependent ==
    /\ [](\A t \in Tasks :
            /\ tasks[t].pc = "done" =>
                 tasks[t].result = Some(Returned(tasks[t].call.op, tasks[t].resp[1]))
            /\ tasks[t].pc = "sent" => ENABLED TaskReceive(t))
    /\ [][\A t \in Tasks :
            /\ UNCHANGED <<url, api_key>>
            /\ tasks'[t] # tasks[t] => \A u \in Tasks \ {t} : tasks'[u] = tasks[u]]_vars
\* Two identical calls were in flight at once; one has returned Ok, the other
\* an error, each from its own response.
C18_Witness ==
    /\ tasks["a"].pc = "done" /\ tasks["b"].pc = "done"
    /\ tasks["a"].call = [op |-> "get_account"]
    /\ tasks["b"].call = [op |-> "get_account"]
    /\ tasks["a"].result[1].kind = "Ok"
    /\ tasks["b"].result[1] = NetworkError
    /\ url = given.url /\ api_key = given.api_key

\* C19: each operation uses its catalogued HTTP method and path and no other.
C19_CataloguedMethodAndPath ==
    req # None =>
        /\ TheRequest.method = Catalogue(call.op).method
        /\ TheRequest.url = get_url \o Catalogue(call.op).path
\* refund has sent a POST to /refundOrder.
C19_Witness ==
    /\ req # None /\ call.op = "refund"
    /\ TheRequest.method = "POST"
    /\ TheRequest.url = get_url \o "/refundOrder"

\* C20: update_order_kyc and refund_order are stubs: a call sends no request
\* and returns no normal result, and no request of the public client goes to
\* /updateOrder or /refundOrder.
C20_StubsSendNothing ==
    /\ (pc # "idle" /\ call.op \in Stubs) =>
          (req = None /\ requests = 0 /\ pc = "done" /\ TheResult = Panic)
    /\ req # None =>
          TheRequest.url \notin {given.url \o "/updateOrder", given.url \o "/refundOrder"}
\* refund_order was called: nothing was sent and the call panicked.
C20_Witness ==
    /\ pc = "done" /\ call.op = "refund_order"
    /\ req = None /\ requests = 0 /\ TheResult = Panic

\* The state in which the service holds each order: o1 waits for KYC, o2 is
\* complete.
ServiceOrders ==
    [i \in OrderIds |->
        IF i = "o1" THEN [status |-> "Action Request", validationStatus |-> Some("awaiting")]
        ELSE [status |-> "Complete", validationStatus |-> None]]
\* The condition under which an order may be refunded.
Refundable(order) ==
    /\ order.status = "Action Request"
    /\ order.validationStatus
         \in {None, Some("awaiting"), Some("failed_allow_retry"), Some("failed_deny_retry")}

OrderStatuses ==
    {"Awaiting Deposit", "Confirming Deposit", "Exchanging", "Sending", "Complete",
     "Refund", "Failed", "Volatility Protection", "Action Request", "Request Overdue"}
ValidationStatuses ==
    {None} \cup {Some(v) : v \in {"awaiting", "pending", "failed_allow_retry",
                                  "failed_deny_retry", "complete", "failed"}}
InEnumerations(record) ==
    record.status \in OrderStatuses /\ record.validationStatus \in ValidationStatuses

\* C22: every Status that order_status returns and every Summary that
\* all_orders returns has a status among the ten listed strings and a
\* validationStatus that is null or among the six listed ones: a response with
\* any other string is not returned as Ok.
C22_StatusesAreClosedEnumerations ==
    /\ (pc = "done" /\ call.op = "order_status" /\ TheResult.kind = "Ok")
         => InEnumerations(TheResult.value)
    /\ (pc = "done" /\ call.op = "all_orders" /\ TheResult.kind = "Ok")
         => \A i \in DOMAIN TheResult.value.list :
               InEnumerations(TheResult.value.list[i])

\* C23: every /setExtraFee request carries a fee within 0 - 0.1 (fees are
\* counted in steps of 0.0001).
C23_FeeSentIsInRange ==
    (req # None /\ call.op = "set_fee") =>
        ValueOf(TheRequest.body, "extraFee").n \in 0..FeeRangeMax

\* C24: the kind of a call's result depends only on the response body: it is
\* the same for status 200 and for every other status.
C24_StatusDoesNotMatter ==
    (Answered /\ call.op \in Endpoints) =>
        \A s \in Statuses :
            Returned(call.op, Response(s, TheBody)).kind = TheResult.kind

\* Two argument lists differ only in whether an argument is None or Some.
DifferInPresence(a, b) ==
    /\ a # b
    /\ \A i \in DOMAIN a : a[i] # b[i] => (a[i] = None) # (b[i] = None)

\* C25: for get_pair_info and get_exchange_rate, a call that differs from the
\* one made only in whether an optional argument is None or Some would send
\* a different request; a call without a fee override is not sent as an
\* override of 0.
C25_PresenceShowsInTheRequest ==
    /\ (req # None /\ call.op = "get_pair_info") =>
          \A a \in OptString, b \in OptString, c \in OptString :
              DifferInPresence(<<a, b, c>>,
                               <<call.sendNetwork, call.receiveNetwork, call.amountType>>)
                => get_pair_info_request(call.send, call.receive, a, b, c) # TheRequest
    /\ (req # None /\ call.op = "get_exchange_rate") =>
          /\ \A a \in OptString, b \in OptString, c \in OptString :
                DifferInPresence(<<a, b, c>>,
                                 <<call.send_network, call.receive_network,
                                   call.amount_type>>)
                  => get_exchange_rate_request(call.send, call.receive, call.amount,
                                               a, b, c, call.extra_fee_override)
                       # TheRequest
          /\ call.extra_fee_override = None
                => get_exchange_rate_request(call.send, call.receive, call.amount,
                                             call.send_network, call.receive_network,
                                             call.amount_type, Some(0))
                     # TheRequest

\* The four keys create_order always sends, and the key of each optional
\* field that is Some.
RequiredOrderKeys == {"send", "receive", "amount", "receiveAddress"}
OptionalOrderArgs(c) ==
    << <<"payload", c.user.payload>>,
       <<"userDeviceId", c.user.user_device_id>>,
       <<"userId", c.user.user_id>>,
       <<"sendNetwork", c.network.send_network>>,
       <<"receiveNetwork", c.network.receive_network>>,
       <<"receiveTag", c.network.receive_tag>>,
       <<"extraFeeOverride", c.transaction.extra_fee_override>>,
       <<"vpm", c.transaction.vpm>>,
       <<"refundAddress", c.transaction.refund_address>>,
       <<"refundTag", c.transaction.refund_tag>> >>
PresentOrderKeys(c) ==
    {OptionalOrderArgs(c)[i][1] :
       i \in {j \in DOMAIN OptionalOrderArgs(c) : IsSome(OptionalOrderArgs(c)[j][2])}}

\* C26: the body of create_order has the four required keys and the keys of
\* the optional fields that are Some, no other key, and no key whose value is
\* null.
C26_OrderBodyOmitsUnsetFields ==
    (req # None /\ call.op = "create_order") =>
        /\ KeysOf(TheRequest.body) = RequiredOrderKeys \cup PresentOrderKeys(call)
        /\ \A i \in DOMAIN TheRequest.body : TheRequest.body[i][2] # Null

\* C27: when the `data` list of the response to get_single_currency(c) has an
\* element whose currency is c, that element is what the call returns, the
\* first of the list or not; the empty list, and no other, gives the
\* synthetic ApiError 404.
C27_ReturnsTheMatchingElement ==
    (/\ Answered /\ call.op = "get_single_currency" /\ resp[1].status = StatusOK
     /\ IsSuccessEnvelope(TheBody) /\ TheBody.data[1].shape = "CurrencyList") =>
        /\ (TheResult = ApiError(CurrencyNotFound)) <=> (TheBody.data[1].list = <<>>)
        /\ (\E i \in DOMAIN TheBody.data[1].list :
               TheBody.data[1].list[i].currency = call.currency)
             => TheResult = OkResult(CurrencyRecord(call.currency))

\* C30: in the body update_kyc sends, each document's documentType and side
\* are the strings of their Display implementations.
C30_DocumentsUseTheWireStrings ==
    (req # None /\ call.op = "update_kyc" /\ IsSome(call.proof.validationData)) =>
        \A i \in DOMAIN call.proof.validationData[1].documents :
            LET document == call.proof.validationData[1].documents[i]
                sent == ValueOf(TheRequest.body, "validationData").documents[i]
            IN /\ IsSome(document.documentType)
                    => sent.documentType
                         = Str(DocumentTypeDisplay(document.documentType[1]))
               /\ IsSome(document.side)
                    => sent.side = Str(SideDisplay(document.side[1]))

\* The outcomes of a call: Ok or one of the three kinds of Error.
Outcomes == {"Ok", "NetworkError", "DeserializeError", "ApiError"}

\* C28 as stated: every call of every public operation ends, once the
\* transport has delivered a response or failed, with one outcome that is Ok
\* or one of the three kinds of Error.
C28_EveryCallEndsInAnOutcome ==
    /\ [](pc = "done" => TheResult.kind \in Outcomes)
    /\ (pc = "sent" ~> pc = "done")

\* C28 as amended: a call of update_order_kyc or refund_order ends at once in
\* a panic, with no request and no outcome; a call of any other operation
\* ends, once the transport has delivered one response or failed, with one
\* outcome that is Ok or one of the three kinds of Error, after one request.
C28_EndpointCallsEndInAnOutcome ==
    /\ [](pc = "done" =>
            IF call.op \in Stubs
              THEN TheResult = Panic /\ req = None
              ELSE TheResult.kind \in Outcomes /\ requests = 1)
    /\ (pc = "sent" ~> pc = "done")
\* order_status for an order the service does not have has ended in ApiError.
C28_Witness ==
    /\ pc = "done" /\ call.op = "order_status" /\ call.id = "o9"
    /\ api_key = ValidKey /\ TheResult.kind = "ApiError" /\ requests = 1

\* Task t's get_account has returned Ok after a set_fee of t returned Ok.
ReadAfterOwnSet(t) ==
    /\ tasks[t].pc = "done" /\ tasks[t].call.op = "get_account"
    /\ tasks[t].result[1].kind = "Ok"
    /\ IsSome(taskFee[t].set)

\* C29 as stated: when two tasks share one client and each runs set_fee(x)
\* followed by get_account(), in every interleaving each task's get_account
\* returns the extraFee that the task itself set.
C29_EachTaskReadsItsOwnFee ==
    \A t \in Tasks :
        ReadAfterOwnSet(t)
          => tasks[t].result[1].value.extraFee = FeeToString(taskFee[t].set[1])

\* C29 as amended: each task's get_account returns the extraFee the service
\* holds when it answers, the one of the latest set_fee that reached it from
\* either task; it is the value the task itself set when no set_fee of the
\* other task has reached the service since.
C29_TaskReadsTheLatestFee ==
    [][\A t \in Tasks :
          (tasks[t].pc = "sent" /\ ReadAfterOwnSet(t)') =>
              /\ tasks'[t].result[1].value.extraFee = FeeToString(extraFee)
              /\ taskFee[t].alone
                   => tasks'[t].result[1].value.extraFee
                        = FeeToString(taskFee[t].set[1])]_vars
\* Task b has set a fee, then task a another one, and a's get_account has
\* returned a's.
C29_Witness ==
    /\ ReadAfterOwnSet("a")
    /\ taskFee["a"] = [set |-> Some(1), alone |-> TRUE]
    /\ taskFee["b"] = [set |-> Some(2), alone |-> FALSE]
    /\ tasks["a"].result[1].value.extraFee = FeeToString(1)

====
